---- MODULE Spec2Model ----
(***************************************************************************)
(* HeartShard narrative engine (src/heartshard_engine_v2.py).              *)
(*                                                                         *)
(* Python objects that are shared by reference are kept in heaps:          *)
(*   heap    PolarityState objects (mutable dataclass), a reference is an  *)
(*           index into the sequence;                                      *)
(*   lists   the list objects owned by TimelineDB instances;               *)
(*   events  ExclusionEvent objects (eye_closed is mutated in place);      *)
(*   tdb     TimelineDB objects, tdb[1] is HeartShardEngine.timeline.      *)
(* The helical NAND array (src/rotational_nand_sim.py) is kept in cells and *)
(* breath_count; seed is the argument HeartShardEngine was constructed     *)
(* with.  The specifications share the variables:                          *)
(*   Spec          the engine after HeartShardEngine() and its operations; *)
(*   SpecTimeline  the TimelineDB operations called directly;              *)
(*   SpecPolarity  the pure polarity functions on every input;             *)
(*   SpecMatrix    the RelationshipMatrix operations called directly;      *)
(*   SpecEntity    bond_with and unbond_from on one roster entity;         *)
(*   SpecSeeded    two engine runs constructed with the same seed;         *)
(*   SpecRipple    exclusions and the exclusion ripple that follows them;  *)
(*   SpecNand      HelicalNANDArray and its cells.                         *)
(***************************************************************************)
EXTENDS Integers, Sequences, FiniteSets, TLC

VARIABLES heap, entities, mbonds, collapsed, tdb, lists, events,
          entered_eye, playthrough, clock, result, calls,
          seed, cells, breath_count

engineVars == <<heap, entities, mbonds, collapsed, tdb, lists, events,
                entered_eye, playthrough, clock>>
\* The helical NAND array.
nandVars == <<cells, breath_count>>
vars == <<heap, entities, mbonds, collapsed, tdb, lists, events,
          entered_eye, playthrough, clock, result, calls,
          seed, cells, breath_count>>

\* ------------------------------------------------------------------ bounds
\* State-changing calls explored in one run of the engine (successful
\* enter_the_maw, bond_with, unbond_from, move_to_polarity,
\* _reshuffle_from_exclusion).
MaxCalls == 2
\* ------------------------------------------------------ polarity (pure part)
\* Polarity.POSITIVE.value / Polarity.NEGATIVE.value
POSITIVE == 1
NEGATIVE == -1
Polarity == {POSITIVE, NEGATIVE}

\* Polarity.flip
Flip(v) == IF v = POSITIVE THEN NEGATIVE ELSE POSITIVE

\* The value of a PolarityState object: <<x, y, z>>.
PolarityStates == Polarity \X Polarity \X Polarity

\* PolarityState.to_tuple
ToTuple(p) == <<p[1], p[2], p[3]>>

\* DistanceTo without the z axis.
DistanceTo_NoZ(p, q) ==
  (IF p[1] # q[1] THEN 1 ELSE 0) + (IF p[2] # q[2] THEN 1 ELSE 0)

\* PolarityState.distance_to
DistanceTo(p, q) ==
  (IF p[1] # q[1] THEN 1 ELSE 0) + (IF p[2] # q[2] THEN 1 ELSE 0)
    + (IF p[3] # q[3] THEN 1 ELSE 0)

\* A reference that is None.
NoRef == 0

\* The attribute assignment new_pol.<axis> = value on object r (in place).
SetAxis(h, r, axis, v) == [h EXCEPT ![r] = [@ EXCEPT ![axis] = v]]

\* PolarityState(polarity.x, polarity.y, polarity.z) with the axes in `axes`
\* then flipped by attribute assignment: the value of the new object.
FlippedCopy(p, axes) == [a \in 1..3 |-> IF a \in axes THEN Flip(p[a]) ELSE p[a]]

\* SaltAxes whose last entry flips all three axes.
SaltAxes_FullInversion == << {1}, {2}, {3}, {1, 2}, {1, 3}, {1, 2, 3} >>

\* The axis sets of _find_similar_salt's two loops, in the code's order:
\* 'x','y','z', then ('x','y'), ('x','z'), ('y','z').
SaltAxes == << {1}, {2}, {3}, {1, 2}, {1, 3}, {2, 3} >>

\* _find_similar_salt(polarity) on the object r of heap h: the list starts
\* with the argument itself (the same object) followed by six new objects.
\* Returns the heap holding the new objects and the list of references.
FindSimilarSalt(h, r) ==
  [ heap    |-> h \o [i \in 1..Len(SaltAxes) |-> FlippedCopy(h[r], SaltAxes[i])],
    similar |-> <<r>> \o [i \in 1..Len(SaltAxes) |-> Len(h) + i] ]

\* ------------------------------------------------------------------ entropy
\* Entity.entropy is an IEEE double.  The doubles reachable from the roster's
\* initial values under x -> max(0.0, x - 0.1) and x -> min(1.0, x + 0.1) form
\* a closed set of 54 values.  A value is written as the code
\*   10 * (nearest hundredth) + 5 + d
\* where d orders the doubles that round to the same hundredth around the
\* double of the decimal literal (d = 0): 805 is 0.8, 804 is
\* 0.7999999999999999, 706 is 0.7000000000000001.  Codes compare as the
\* doubles do.  Each row: <<code, code of max(0.0, x - 0.1),
\* code of min(1.0, x + 0.1)>>.
EntropyTable ==
  { <<   5,    5,  105>>   \* 0.0
  , <<   6,    5,  106>>   \* 2.7755575615628914e-17
  , <<   7,    5,  107>>   \* 1.3877787807814457e-16
  , <<  53,    5,  154>>   \* 0.04999999999999996
  , <<  54,    5,  155>>   \* 0.04999999999999999
  , <<  55,    5,  156>>   \* 0.05
  , <<  56,    5,  156>>   \* 0.05000000000000002
  , <<  57,    5,  157>>   \* 0.0500000000000001
  , << 104,    5,  204>>   \* 0.09999999999999998
  , << 105,    5,  205>>   \* 0.1
  , << 106,    6,  206>>   \* 0.10000000000000003
  , << 107,    7,  207>>   \* 0.10000000000000014
  , << 154,   53,  254>>   \* 0.14999999999999997
  , << 155,   54,  255>>   \* 0.15
  , << 156,   56,  255>>   \* 0.15000000000000002
  , << 157,   57,  256>>   \* 0.1500000000000001
  , << 204,  104,  305>>   \* 0.19999999999999998
  , << 205,  105,  306>>   \* 0.2
  , << 206,  106,  306>>   \* 0.20000000000000004
  , << 207,  107,  307>>   \* 0.20000000000000015
  , << 254,  154,  355>>   \* 0.24999999999999997
  , << 255,  155,  355>>   \* 0.25
  , << 256,  157,  356>>   \* 0.2500000000000001
  , << 305,  204,  405>>   \* 0.3
  , << 306,  206,  405>>   \* 0.30000000000000004
  , << 307,  207,  406>>   \* 0.30000000000000016
  , << 355,  254,  454>>   \* 0.35
  , << 356,  256,  456>>   \* 0.3500000000000001
  , << 405,  306,  505>>   \* 0.4
  , << 406,  307,  506>>   \* 0.40000000000000013
  , << 454,  355,  554>>   \* 0.44999999999999996
  , << 456,  356,  555>>   \* 0.45000000000000007
  , << 505,  405,  605>>   \* 0.5
  , << 506,  406,  606>>   \* 0.5000000000000001
  , << 554,  454,  654>>   \* 0.5499999999999999
  , << 555,  456,  655>>   \* 0.55
  , << 605,  505,  705>>   \* 0.6
  , << 606,  506,  706>>   \* 0.6000000000000001
  , << 654,  554,  754>>   \* 0.6499999999999999
  , << 655,  555,  755>>   \* 0.65
  , << 705,  605,  804>>   \* 0.7
  , << 706,  606,  805>>   \* 0.7000000000000001
  , << 754,  654,  854>>   \* 0.7499999999999999
  , << 755,  655,  855>>   \* 0.75
  , << 804,  705,  904>>   \* 0.7999999999999999
  , << 805,  706,  905>>   \* 0.8
  , << 854,  754,  954>>   \* 0.8499999999999999
  , << 855,  755,  955>>   \* 0.85
  , << 904,  804, 1004>>   \* 0.8999999999999999
  , << 905,  805, 1005>>   \* 0.9
  , << 954,  854, 1005>>   \* 0.9499999999999998
  , << 955,  855, 1005>>   \* 0.95
  , <<1004,  904, 1005>>   \* 0.9999999999999999
  , <<1005,  905, 1005>>   \* 1.0
  }

EntropyRow(c) == CHOOSE row \in EntropyTable : row[1] = c

\* max(0.0, self.entropy - 0.1)
EntropyAfterBond(c) == EntropyRow(c)[2]

\* min(1.0, self.entropy + 0.1)
EntropyAfterUnbond(c) == EntropyRow(c)[3]

\* The double 0.8 of can_enter_eye.
ReadyBelow == 805

\* ------------------------------------------------------------------- roster
\* The keys of HeartShardEngine.entities in dict order.
RosterOrder ==
  << "lila", "theo", "furin", "chanti", "kai", "ori", "ayni", "ion",
     "vincent", "heartshard", "flameblade", "heartshield", "maw" >>
Roster == { RosterOrder[i] : i \in 1..Len(RosterOrder) }

\* isinstance(v, Character)
Characters ==
  { "lila", "theo", "furin", "chanti", "kai", "ori", "ayni", "ion", "vincent" }

\* Entity.name of each roster entry.
EntityName ==
  [ k \in Roster |->
      CASE k = "lila" -> "Lila"       [] k = "theo" -> "Theo"
        [] k = "furin" -> "Furin"     [] k = "chanti" -> "Chanti"
        [] k = "kai" -> "Kai"         [] k = "ori" -> "Ori"
        [] k = "ayni" -> "Ayni"       [] k = "ion" -> "Ion"
        [] k = "vincent" -> "Vincent" [] k = "heartshard" -> "Heartshard"
        [] k = "flameblade" -> "Flameblade"
        [] k = "heartshield" -> "Heartshield"
        [] k = "maw" -> "Maw" ]

\* The polarity each roster entry is constructed with.
InitialPolarity ==
  [ k \in Roster |->
      CASE k = "lila" -> <<1, -1, 1>>     [] k = "theo" -> <<-1, 1, 1>>
        [] k = "furin" -> <<1, 1, -1>>    [] k = "chanti" -> <<-1, -1, 1>>
        [] k = "kai" -> <<1, 1, 1>>       [] k = "ori" -> <<-1, 1, -1>>
        [] k = "ayni" -> <<1, -1, -1>>    [] k = "ion" -> <<-1, -1, -1>>
        [] k = "vincent" -> <<-1, 1, 1>>  [] k = "heartshard" -> <<1, 1, 1>>
        [] k = "flameblade" -> <<-1, -1, -1>>
        [] k = "heartshield" -> <<1, 1, 1>>
        [] k = "maw" -> <<-1, -1, -1>> ]

\* The entropy each roster entry is constructed with (codes of the doubles
\* 0.3 0.6 0.5 0.8 0.4 0.4 0.5 0.5 0.9 0.1 0.9 0.05 0.95).
InitialEntropy ==
  [ k \in Roster |->
      CASE k = "lila" -> 305    [] k = "theo" -> 605
        [] k = "furin" -> 505   [] k = "chanti" -> 805
        [] k = "kai" -> 405     [] k = "ori" -> 405
        [] k = "ayni" -> 505    [] k = "ion" -> 505
        [] k = "vincent" -> 905 [] k = "heartshard" -> 105
        [] k = "flameblade" -> 905
        [] k = "heartshield" -> 55
        [] k = "maw" -> 955 ]

RosterIndex(k) == CHOOSE i \in 1..Len(RosterOrder) : RosterOrder[i] = k

\* A signal reference that is None (Entity.birth_signal).
NoSignal == [event_type |-> "None"]

\* An Entity (Character or Artifact) as constructed: its own PolarityState
\* object, __post_init__ appends that object to diagonal.
NewEntity(k) ==
  [ name         |-> EntityName[k],
    polarity     |-> RosterIndex(k),
    entropy      |-> InitialEntropy[k],
    bonds        |-> {},
    diagonal     |-> <<RosterIndex(k)>>,
    birth_signal |-> NoSignal,
    generation   |-> 1,
    lineage      |-> <<>>,
    inside_eye   |-> FALSE ]

\* Entity.bond_with
BondWithEntity(ent, other) ==
  [ent EXCEPT !.bonds = @ \cup {other}, !.entropy = EntropyAfterBond(@)]

\* UnbondFromEntity without the membership test.
UnbondFromEntity_Unguarded(ent, other) ==
  [ent EXCEPT !.bonds = @ \ {other}, !.entropy = EntropyAfterUnbond(@)]

\* Entity.unbond_from
UnbondFromEntity(ent, other) ==
  IF other \in ent.bonds
    THEN [ent EXCEPT !.bonds = @ \ {other}, !.entropy = EntropyAfterUnbond(@)]
    ELSE ent

\* CanEnterEye with entropy <= 0.8.
CanEnterEye_Inclusive(ent) == Cardinality(ent.bonds) >= 1 /\ ent.entropy <= 805

\* Character.can_enter_eye
CanEnterEye(ent) == Cardinality(ent.bonds) >= 1 /\ ent.entropy < ReadyBelow

\* ------------------------------------------------------ RelationshipMatrix
\* BondType
BondTypes ==
  { "trust", "opposition", "protection", "dependency", "mirror", "mediated",
    "unknown" }

\* Python's string order on the names used as bond endpoints (sorted()).
NameOrder ==
  << "ayni", "chanti", "flameblade", "furin", "heartshard", "heartshield",
     "ion", "kai", "lila", "maw", "oni", "ori", "theo", "vincent" >>
NameRank(n) == CHOOSE i \in 1..Len(NameOrder) : NameOrder[i] = n

\* NormalizeKey without the sort: the names in the order given.
NormalizeKey_AsGiven(a, b) == <<a, b>>

\* RelationshipMatrix._normalize_key
NormalizeKey(a, b) == IF NameRank(a) <= NameRank(b) THEN <<a, b>> ELSE <<b, a>>

\* datetime.now().timestamp(): the wall clock has moved on at every reading.
Now(c) == c + 1

\* Bond strengths are written in thousandths (1000 is 1.0).
MaxStrength == 1000

Min(a, b) == IF a <= b THEN a ELSE b

\* The position of key in the dict RelationshipMatrix.bonds (kept as the
\* sequence of its values in insertion order), 0 when absent.
BondIndex(bs, key) ==
  IF \E i \in 1..Len(bs) : bs[i].key = key
    THEN CHOOSE i \in 1..Len(bs) : bs[i].key = key
    ELSE 0

\* Bond(...) as built by create_bond and collapse_new_bond.
NewBond(a, b, type, strength, now) ==
  [ key |-> NormalizeKey(a, b), entity_a |-> a, entity_b |-> b,
    bond_type |-> type, strength |-> strength, formed_at |-> now ]

\* self.bonds[key] = bond: an existing key keeps its place in the dict.
PutBond(bs, bond) ==
  IF BondIndex(bs, bond.key) = 0
    THEN Append(bs, bond)
    ELSE [bs EXCEPT ![BondIndex(bs, bond.key)] = bond]

\* CreateBond that also gives an existing bond the type passed.
CreateBond_Retype(bs, a, b, type, strength, now) ==
  LET i == BondIndex(bs, NormalizeKey(a, b)) IN
  IF i # 0
    THEN [bs EXCEPT ![i].strength = Min(MaxStrength, @ + strength \div 2),
                    ![i].bond_type = type]
    ELSE Append(bs, NewBond(a, b, type, strength, now))

\* RelationshipMatrix.create_bond
CreateBond(bs, a, b, type, strength, now) ==
  LET i == BondIndex(bs, NormalizeKey(a, b)) IN
  IF i # 0
    THEN [bs EXCEPT ![i].strength = Min(MaxStrength, @ + strength \div 2)]
    ELSE Append(bs, NewBond(a, b, type, strength, now))

\* A bond lookup that found nothing (None).
NoBond == [bond_type |-> "None"]

\* GetBond that leaves the collapsed set alone.
GetBond_NoCollapse(bs, coll, a, b) ==
  LET key == NormalizeKey(a, b)
      i   == BondIndex(bs, key)
  IN  [ bond      |-> IF i = 0 THEN NoBond ELSE bs[i],
        collapsed |-> coll ]

\* RelationshipMatrix.get_bond: the bond (or None) and the collapsed set.
GetBond(bs, coll, a, b) ==
  LET key == NormalizeKey(a, b)
      i   == BondIndex(bs, key)
  IN  [ bond      |-> IF i = 0 THEN NoBond ELSE bs[i],
        collapsed |-> IF i = 0 THEN coll ELSE coll \cup {key} ]

\* RelationshipMatrix.get_bonded_to: the neighbours in dict order.
RECURSIVE GetBondedTo(_, _)
GetBondedTo(bs, entity) ==
  IF bs = <<>> THEN <<>>
  ELSE LET k == Head(bs).key
           here == IF k[1] = entity THEN <<k[2]>>
                   ELSE IF k[2] = entity THEN <<k[1]>> ELSE <<>>
       IN  here \o GetBondedTo(Tail(bs), entity)

\* The outcomes random.uniform(0.3, 0.7) is sampled at (thousandths).
UniformSamples == {300, 500, 700}

\* The draws one collapse_new_bond call may make: the bond type picked by
\* random.choice and the strength picked by random.uniform.
CollapseDraws == [type : BondTypes, strength : UniformSamples]

\* Whether draw d is an outcome collapse_new_bond(a, b, m) can produce.  A
\* branch that makes no draw takes one fixed d.
CollapseDrawPossible(bs, a, b, m, d) ==
  LET oa == GetBond(bs, {}, a, m).bond
      ob == GetBond(bs, {}, b, m).bond
  IN  IF oa # NoBond /\ ob # NoBond
        THEN /\ d.strength = 500
             /\ IF oa.bond_type = ob.bond_type
                  THEN d.type = "trust"
                  ELSE d.type \in {"opposition", "dependency"}
        ELSE TRUE

\* RelationshipMatrix.collapse_new_bond with the random draws d, at clock
\* reading now: the new dict, the new collapsed set and the bond returned.
CollapseNewBond(bs, coll, a, b, m, d, now) ==
  LET ga == GetBond(bs, coll, a, m)
      gb == GetBond(bs, ga.collapsed, b, m)
      oa == ga.bond
      ob == gb.bond
      both == oa # NoBond /\ ob # NoBond
      type == IF both
                THEN IF oa.bond_type = ob.bond_type THEN oa.bond_type ELSE d.type
                ELSE d.type
      strength == IF both THEN (oa.strength + ob.strength) \div 2
                  ELSE d.strength
      bond == NewBond(a, b, type, strength, now)
  IN  [ bonds |-> PutBond(bs, bond), collapsed |-> gb.collapsed, bond |-> bond ]

\* RelationshipMatrix.snapshot
Snapshot(bs, coll, now) ==
  [ bonds     |-> { <<bs[i].key, bs[i].bond_type, bs[i].strength>> :
                      i \in 1..Len(bs) },
    collapsed |-> coll,
    timestamp |-> now ]

\* --------------------------------------------------------------- TimelineDB
\* TimelineDB.branch_point before any branch (None).
NoTime == -1

\* A store is the three heaps the TimelineDB operations touch.
Store(t, l, e) == [tdb |-> t, lists |-> l, events |-> e]

\* ListCopy that hands back the same list object.
ListCopy_Alias(ls, r) == [lists |-> ls, ref |-> r]

\* list.copy(): a new list object with the same entries.
ListCopy(ls, r) == [lists |-> Append(ls, ls[r]), ref |-> Len(ls) + 1]

\* TimelineDB(): a new object with its own empty signals and exclusions lists.
NewTimeline(st) ==
  [ st EXCEPT
      !.lists = @ \o << <<>>, <<>> >>,
      !.tdb = Append(@, [ current_time |-> 0,
                          signals      |-> Len(st.lists) + 1,
                          exclusions   |-> Len(st.lists) + 2,
                          branches     |-> <<>>,
                          branch_point |-> NoTime ]) ]

\* TimelineDB.broadcast_signal
BroadcastSignal(st, t, sig) ==
  [ st EXCEPT
      !.lists[st.tdb[t].signals] = Append(@, sig),
      !.tdb[t].current_time = sig.timestamp ]

\* TimelineDB.record_exclusion (e is a reference into events)
RecordExclusion(st, t, e) ==
  [ st EXCEPT
      !.lists[st.tdb[t].exclusions] = Append(@, e),
      !.events[e].eye_closed = TRUE ]

\* TimelineDB.branch_from_exclusion: the child is the last object of the
\* store returned.  (new_bonds is not used by the method.)
BranchFromExclusion(st, t, e) ==
  LET sigs == ListCopy(st.lists, st.tdb[t].signals)
      excl == ListCopy(sigs.lists, st.tdb[t].exclusions)
      child == [ current_time |-> 0,
                 signals      |-> sigs.ref,
                 exclusions   |-> excl.ref,
                 branches     |-> <<>>,
                 branch_point |-> st.events[e].timestamp ]
      id == Len(st.tdb) + 1
  IN  [ st EXCEPT
          !.lists = excl.lists,
          !.tdb = Append([@ EXCEPT ![t].branches = Append(@, id)], child) ]

\* The entries of a TimelineDB's logs, read through the references.
SignalLog(st, t) == st.lists[st.tdb[t].signals]
ExclusionLog(st, t) ==
  LET l == st.lists[st.tdb[t].exclusions]
  IN  [i \in 1..Len(l) |-> st.events[l[i]]]

\* TimelineDB.get_state_snapshot
GetStateSnapshot(st, t) ==
  LET ex == ExclusionLog(st, t) IN
  [ time           |-> st.tdb[t].current_time,
    signals        |-> Len(SignalLog(st, t)),
    exclusions     |-> Len(ex),
    branches       |-> Len(st.tdb[t].branches),
    last_exclusion |-> IF Len(ex) > 0 THEN ex[Len(ex)].character ELSE "None" ]

\* ------------------------------------------------------------------ signals
\* friction and entropy_delta are written in thousandths.
\* The Signal built by Entity.move_to_polarity (friction defaults to 1.0).
MovementSignal(ent, ref, now) ==
  [ source |-> ent.name, target |-> "universal_db", polarity_change |-> ref,
    friction |-> 1000, timestamp |-> now, entropy_delta |-> 100,
    event_type |-> "movement", signal_location |-> NoRef,
    generation |-> 1, lineage |-> <<>> ]

\* BirthSignal carrying the parent's own generation.
BirthSignal_SameGeneration(name, ent, now) ==
  [ source |-> name, target |-> "next_generation",
    polarity_change |-> ent.polarity,
    friction |-> 1000, timestamp |-> now, entropy_delta |-> 0,
    event_type |-> "generational_birth", signal_location |-> ent.polarity,
    generation |-> ent.generation,
    lineage |-> Append(ent.lineage, name) ]

\* The birth Signal built by enter_the_maw.
BirthSignal(name, ent, now) ==
  [ source |-> name, target |-> "next_generation",
    polarity_change |-> ent.polarity,
    friction |-> 1000, timestamp |-> now, entropy_delta |-> 0,
    event_type |-> "generational_birth", signal_location |-> ent.polarity,
    generation |-> ent.generation + 1,
    lineage |-> Append(ent.lineage, name) ]

\* ------------------------------------------------------------- the engine
\* The three TimelineDB heaps as a store.
EngineStore == Store(tdb, lists, events)

\* EnterOutcome without the inside_eye test.
EnterOutcome_NoEyeCheck(ents, name) ==
  IF name \notin DOMAIN ents \/ name \notin Characters
    THEN "Invalid character"
  ELSE IF Cardinality(ents[name].bonds) < 1 \/ ents[name].entropy >= 805
    THEN "Character not ready (needs bonds, lower entropy)"
  ELSE "success"

\* The guards of enter_the_maw, in the code's order: the 'error' text of the
\* early return taken, or "success" when none is.
EnterOutcome(ents, name) ==
  IF name \notin DOMAIN ents \/ name \notin Characters
    THEN "Invalid character"
  ELSE IF ents[name].inside_eye
    THEN "Already inside the Maw"
  ELSE IF ~CanEnterEye(ents[name])
    THEN "Character not ready (needs bonds, lower entropy)"
  ELSE "success"

\* MarkInside with the assignment made before the inside_eye and readiness
\* tests.
MarkInside_BeforeChecks(ents, name, out) ==
  IF name \in DOMAIN ents /\ name \in Characters
    THEN [ents EXCEPT ![name].inside_eye = TRUE]
    ELSE ents

\* character.inside_eye = True, a statement behind the three early returns.
MarkInside(ents, name, out) ==
  IF out = "success" THEN [ents EXCEPT ![name].inside_eye = TRUE] ELSE ents

\* EnteredEye with the add made before the early returns.
EnteredEye_Always(entered, name, out) == entered \cup {name}

\* self.entered_eye.add(character_name), behind the three early returns.
EnteredEye(entered, name, out) ==
  IF out = "success" THEN entered \cup {name} ELSE entered

\* NextPlaythrough without the increment.
NextPlaythrough_Stuck(p) == p

\* self.playthrough += 1
NextPlaythrough(p) == p + 1

\* VincentHealing of 1.0.
VincentHealing_Full == [num |-> 1, den |-> 1]

\* vincent_healing=0.0 ("Not about Vincent anymore"), as a fraction.
VincentHealing == [num |-> 0, den |-> 1]

\* ExclusionEvent(...) as built by enter_the_maw.
NewExclusionEvent(name, bonds_at_entry, world_state, ts) ==
  [ character |-> name, bonds_at_entry |-> bonds_at_entry,
    world_state |-> world_state, vincent_healing |-> VincentHealing,
    timestamp |-> ts, eye_closed |-> FALSE ]

\* Reborn without the assignment to polarity.
Reborn_KeepsPolarity(ent, next_polarity, sig) ==
  [ ent EXCEPT !.generation = sig.generation, !.lineage = sig.lineage,
               !.birth_signal = sig ]

\* Reborn that also commits a derived bond to the parent (bond_with).
Reborn_Commits(ent, next_polarity, sig) ==
  BondWithEntity(
    [ ent EXCEPT !.polarity = next_polarity, !.generation = sig.generation,
                 !.lineage = sig.lineage, !.birth_signal = sig ],
    "kai")

\* The assignments of _generate_next_generation to the parent entity.
Reborn(ent, next_polarity, sig) ==
  [ ent EXCEPT !.polarity = next_polarity, !.generation = sig.generation,
               !.lineage = sig.lineage, !.birth_signal = sig ]

\* The other characters _reshuffle_bonds_generational goes through.
GenerationalPartners(ents, character) ==
  { k \in DOMAIN ents : k \in Characters /\ k # character /\ k # "vincent" }

\* GenerationalStrength of 0.5 at every distance.
GenerationalStrength_Flat(distance) == 500

\* The bond strength (thousandths; also the formation probability) and the
\* types random.choice picks from, by polarity distance.
GenerationalStrength(distance) ==
  IF distance <= 1 THEN 800 ELSE IF distance = 2 THEN 500 ELSE 200
GenerationalTypes(distance) ==
  IF distance <= 1 THEN {"trust", "protection"}
  ELSE IF distance = 2 THEN {"dependency", "mirror"}
  ELSE {"unknown"}

\* The value of the PolarityState object r.
PolarityOf(h, r) == h[r]

\* _reshuffle_bonds_generational.  draws maps each partner whose
\* random.random() fell below the bond strength to the type drawn for it.
DrawsPossible(h, ents, character, new_polarity, draws) ==
  /\ DOMAIN draws \subseteq GenerationalPartners(ents, character)
  /\ \A o \in DOMAIN draws :
       draws[o] \in GenerationalTypes(
         DistanceTo(PolarityOf(h, new_polarity), PolarityOf(h, ents[o].polarity)))
ReshuffleBondsGenerational(h, ents, character, new_polarity, draws) ==
  { [ pair |-> <<character, o>>, type |-> draws[o],
      strength |-> GenerationalStrength(
        DistanceTo(PolarityOf(h, new_polarity), PolarityOf(h, ents[o].polarity))) ] :
    o \in DOMAIN draws }

\* _generate_next_generation with random.choice picking similar_polarities[pick].
\* The six objects _find_similar_salt builds are temporaries: only the one
\* picked stays referenced and is kept.  The 'bonds' entry of the dict
\* returned is the value of ReshuffleBondsGenerational under the draws made;
\* it reads the engine and changes nothing in it, and is left out of config.
GenerateNextGeneration(h, ents, sig, pick) ==
  LET salt   == FindSimilarSalt(h, sig.signal_location)
      chosen == salt.similar[pick]
      h2     == IF chosen <= Len(h) THEN h ELSE Append(h, salt.heap[chosen])
      next   == IF chosen <= Len(h) THEN chosen ELSE Len(h) + 1
      parent == sig.source
      ents2  == IF parent \in DOMAIN ents
                  THEN [ents EXCEPT ![parent] = Reborn(@, next, sig)]
                  ELSE ents
  IN  [ heap |-> h2, entities |-> ents2, next_polarity |-> next,
        config |-> [ parent        |-> parent,
                     next_location |-> ToTuple(PolarityOf(h2, next)),
                     generation    |-> sig.generation,
                     lineage       |-> sig.lineage ] ]

NoResult == [status |-> "none"]

\* The success path of enter_the_maw with random.choice picking
\* similar_polarities[pick]: the engine state it leaves and the dict it
\* returns.
EnterSuccess(name, pick) ==
  LET out   == EnterOutcome(entities, name)
      ents1 == MarkInside(entities, name, out)
      t1    == Now(clock)
      sig   == BirthSignal(name, ents1[name], t1)
      st1   == BroadcastSignal(Store(tdb, lists, events), 1, sig)
      gen   == GenerateNextGeneration(heap, ents1, sig, pick)
      t2    == Now(t1)
      ev    == NewExclusionEvent(
                 name, Snapshot(mbonds, collapsed, t2),
                 GetStateSnapshot(st1, 1), sig.timestamp)
      st2   == [st1 EXCEPT !.events = Append(@, ev)]
      st3   == BranchFromExclusion(st2, 1, Len(st2.events))
  IN  [ heap        |-> gen.heap,
        entities    |-> gen.entities,
        entered_eye |-> EnteredEye(entered_eye, name, out),
        tdb         |-> st3.tdb,
        lists       |-> st3.lists,
        events      |-> st3.events,
        playthrough |-> NextPlaythrough(playthrough),
        clock       |-> t2,
        result      |->
          [ name |-> name, status |-> "success",
            character |-> name,
            birth_signal |->
              [ location |-> ToTuple(PolarityOf(gen.heap, sig.signal_location)),
                generation |-> sig.generation,
                lineage |-> sig.lineage ],
            playthrough |-> NextPlaythrough(playthrough),
            new_configuration |-> gen.config ] ]

\* HeartShardEngine.enter_the_maw
EnterTheMaw(name) ==
  LET out == EnterOutcome(entities, name) IN
  IF out # "success"
    THEN /\ result' = [name |-> name, status |-> out]
         /\ entities' = MarkInside(entities, name, out)
         /\ entered_eye' = EnteredEye(entered_eye, name, out)
         /\ UNCHANGED <<seed, nandVars, heap, mbonds, collapsed, tdb, lists,
                        events, playthrough, clock, calls>>
    ELSE
      /\ calls < MaxCalls
      /\ \E pick \in 1..7 :
           LET s == EnterSuccess(name, pick)
           IN  /\ heap' = s.heap
               /\ entities' = s.entities
               /\ entered_eye' = s.entered_eye
               /\ tdb' = s.tdb
               /\ lists' = s.lists
               /\ events' = s.events
               /\ playthrough' = s.playthrough
               /\ clock' = s.clock
               /\ result' = s.result
               /\ calls' = calls + 1
               /\ UNCHANGED <<seed, nandVars, mbonds, collapsed>>

\* Entity.bond_with called on roster entry k
BondWith(k, other) ==
  /\ calls < MaxCalls
  /\ entities' = [entities EXCEPT ![k] = BondWithEntity(@, other)]
  /\ calls' = calls + 1
  /\ result' = NoResult
  /\ UNCHANGED <<seed, nandVars, heap, mbonds, collapsed, tdb, lists, events, entered_eye,
                 playthrough, clock>>

\* Entity.unbond_from called on roster entry k
UnbondFrom(k, other) ==
  /\ calls < MaxCalls
  /\ entities' = [entities EXCEPT ![k] = UnbondFromEntity(@, other)]
  /\ calls' = calls + 1
  /\ result' = NoResult
  /\ UNCHANGED <<seed, nandVars, heap, mbonds, collapsed, tdb, lists, events, entered_eye,
                 playthrough, clock>>

\* MovedEntity that also takes the entity out of the eye.
MovedEntity_LeavesEye(ent, ref) ==
  [ent EXCEPT !.polarity = ref, !.diagonal = Append(@, ref),
              !.inside_eye = FALSE]

\* Entity.move_to_polarity: the entity after the call.
MovedEntity(ent, ref) ==
  [ent EXCEPT !.polarity = ref, !.diagonal = Append(@, ref)]

\* Entity.move_to_polarity with a newly built PolarityState of value v; the
\* caller broadcasts the Signal returned (heartshard_demo.py).
MoveToPolarity(k, v) ==
  /\ calls < MaxCalls
  /\ LET ref == Len(heap) + 1
         sig == MovementSignal(entities[k], ref, Now(clock))
         st  == BroadcastSignal(Store(tdb, lists, events), 1, sig)
     IN  /\ heap' = Append(heap, v)
         /\ entities' = [entities EXCEPT ![k] = MovedEntity(@, ref)]
         /\ tdb' = st.tdb
         /\ lists' = st.lists
         /\ clock' = Now(clock)
  /\ calls' = calls + 1
  /\ result' = NoResult
  /\ UNCHANGED <<seed, nandVars, mbonds, collapsed, events, entered_eye, playthrough>>

\* The value heartshard_demo.py's move command assigns to the axis:
\* NEGATIVE if new_pol.x.value == 1, else POSITIVE (whatever the direction).
MoveCommandValue(p) == IF p[1] = 1 THEN NEGATIVE ELSE POSITIVE

\* The move command of heartshard_demo.py: the entity's own PolarityState
\* object is modified in place and passed to move_to_polarity.
MoveCommand(k, axis) ==
  /\ calls < MaxCalls
  /\ LET ref == entities[k].polarity
         h2  == SetAxis(heap, ref, axis, MoveCommandValue(PolarityOf(heap, ref)))
         sig == MovementSignal(entities[k], ref, Now(clock))
         st  == BroadcastSignal(Store(tdb, lists, events), 1, sig)
     IN  /\ heap' = h2
         /\ entities' = [entities EXCEPT ![k] = MovedEntity(@, ref)]
         /\ tdb' = st.tdb
         /\ lists' = st.lists
         /\ clock' = Now(clock)
  /\ calls' = calls + 1
  /\ result' = NoResult
  /\ UNCHANGED <<seed, nandVars, mbonds, collapsed, events, entered_eye, playthrough>>

\* The pairs (entity_a, entity_b) of _reshuffle_from_exclusion's nested loop.
RECURSIVE AffectedPairs(_, _)
AffectedPairs(aff, i) ==
  IF i >= Len(aff) THEN <<>>
  ELSE [j \in 1..(Len(aff) - i) |-> <<aff[i], aff[i + j]>>]
         \o AffectedPairs(aff, i + 1)

\* The collapse_new_bond calls of the loop, one clock reading each.
RECURSIVE CollapsePairs(_, _, _, _, _, _)
CollapsePairs(bs, coll, pairs, m, ds, c) ==
  IF pairs = <<>> THEN [bonds |-> bs, collapsed |-> coll, clock |-> c]
  ELSE LET r == CollapseNewBond(bs, coll, pairs[1][1], pairs[1][2], m,
                                ds[1], Now(c))
       IN  CollapsePairs(r.bonds, r.collapsed, Tail(pairs), m, Tail(ds), Now(c))

RECURSIVE CollapseDrawsPossible(_, _, _, _)
CollapseDrawsPossible(bs, pairs, m, ds) ==
  IF pairs = <<>> THEN TRUE
  ELSE /\ CollapseDrawPossible(bs, pairs[1][1], pairs[1][2], m, ds[1])
       /\ CollapseDrawsPossible(
            CollapseNewBond(bs, {}, pairs[1][1], pairs[1][2], m, ds[1], 0).bonds,
            Tail(pairs), m, Tail(ds))

\* The characters _reshuffle_from_exclusion may shift.
ShiftTargets(ents, excluded) ==
  { k \in DOMAIN ents : k \in Characters /\ k # excluded /\ k # "vincent" }

\* The in-place axis flips of the loop, in dict order; shift maps each
\* character whose random.random() fell below 0.3 to the axis drawn.
RECURSIVE ApplyShifts(_, _, _, _)
ApplyShifts(h, ents, order, shift) ==
  IF order = <<>> THEN h
  ELSE LET k == Head(order)
           r == ents[k].polarity
           h2 == IF k \in DOMAIN shift
                   THEN SetAxis(h, r, shift[k], Flip(h[r][shift[k]]))
                   ELSE h
       IN  ApplyShifts(h2, ents, Tail(order), shift)

\* The characters whose 30% draw is explored both ways (the draw of every
\* other character fails).
ShiftNames == {"lila", "kai"}

\* What _reshuffle_from_exclusion does to the engine for an ExclusionEvent
\* whose character is `excluded`.
ReshuffleEffect(excluded) ==
  /\ LET affected == GetBondedTo(mbonds, excluded)
         pairs    == AffectedPairs(affected, 1)
     IN  \E ds \in [1..Len(pairs) -> CollapseDraws] :
           /\ CollapseDrawsPossible(mbonds, pairs, excluded, ds)
           /\ LET r == CollapsePairs(mbonds, collapsed, pairs, excluded, ds, clock)
              IN  /\ mbonds' = r.bonds
                  /\ collapsed' = r.collapsed
                  /\ clock' = r.clock
  /\ \E S \in SUBSET (ShiftTargets(entities, excluded) \cap ShiftNames) :
       \E shift \in [S -> 1..3] :
         heap' = ApplyShifts(heap, entities, RosterOrder, shift)
  /\ UNCHANGED <<seed, nandVars, entities, tdb, lists, events, entered_eye, playthrough>>

\* HeartShardEngine._reshuffle_from_exclusion for an ExclusionEvent whose
\* character is `excluded`, a character that has entered the eye.
ReshuffleFromExclusion(excluded) ==
  /\ calls < MaxCalls
  /\ excluded \in entered_eye
  /\ ReshuffleEffect(excluded)
  /\ calls' = calls + 1
  /\ result' = NoResult

\* ----------------------------------------------------- engine construction
\* The roster after _initialize_starting_bonds' bond_with calls.
InitialEntities ==
  [ [k \in Roster |-> NewEntity(k)] EXCEPT
      !["lila"] = BondWithEntity(@, "heartshard"),
      !["heartshard"] = BondWithEntity(@, "lila"),
      !["chanti"] = BondWithEntity(BondWithEntity(@, "flameblade"), "furin"),
      !["flameblade"] = BondWithEntity(@, "chanti"),
      !["furin"] = BondWithEntity(@, "chanti") ]

\* The six create_bond calls of _initialize_starting_bonds, one clock
\* reading each.
InitialBonds ==
  LET b1 == CreateBond(<<>>, "lila", "heartshard", "mirror", 1000, 1)
      b2 == CreateBond(b1, "chanti", "flameblade", "dependency", 900, 2)
      b3 == CreateBond(b2, "furin", "chanti", "protection", 700, 3)
      b4 == CreateBond(b3, "flameblade", "heartshard", "opposition", 800, 4)
      b5 == CreateBond(b4, "kai", "oni", "trust", 600, 5)
  IN  CreateBond(b5, "ayni", "ion", "trust", 500, 6)

\* The seed argument left at its default, None.
NoSeed == [given |-> FALSE]

\* `if seed:` in __init__: random.seed(seed) runs for a seed that is given
\* and truthy.
SeedApplied(s) == s.given /\ s.value # 0

\* HeartShardEngine.__init__: the engine state it builds.
ConstructEngine ==
  /\ heap = [i \in 1..Len(RosterOrder) |-> InitialPolarity[RosterOrder[i]]]
  /\ entities = InitialEntities
  /\ mbonds = InitialBonds
  /\ collapsed = {}
  /\ LET st == NewTimeline(Store(<<>>, <<>>, <<>>))
     IN  tdb = st.tdb /\ lists = st.lists /\ events = st.events
  /\ entered_eye = {}
  /\ playthrough = 1
  /\ clock = Len(InitialBonds)
  /\ result = NoResult
  /\ calls = 0
  /\ cells = <<>>
  /\ breath_count = 0

\* HeartShardEngine()
Init == ConstructEngine /\ seed = NoSeed

\* The arguments the operations are called with.
EnterNames == {"lila", "chanti", "vincent", "heartshard", "oni"}
BondNames == {"vincent", "chanti"}
BondOthers == {"furin"}
MoveNames == {"lila"}
MoveValues == { <<1, 1, -1>>, <<-1, -1, -1>> }

Next ==
  \/ \E name \in EnterNames : EnterTheMaw(name)
  \/ \E k \in BondNames, other \in BondOthers : BondWith(k, other)
  \/ \E k \in BondNames, other \in BondOthers : UnbondFrom(k, other)
  \/ \E k \in MoveNames, v \in MoveValues : MoveToPolarity(k, v)
  \/ \E k \in MoveNames, axis \in 1..3 : MoveCommand(k, axis)
  \/ \E excluded \in Characters : ReshuffleFromExclusion(excluded)

Spec == Init /\ [][Next]_vars

\* ------------------------------------------- TimelineDB called directly
\* TimelineDB operations explored in one run.
MaxTimelineCalls == 4

\* The timestamps of the signals broadcast.
SignalTimes == {1, 2}

\* The ExclusionEvent objects the caller has built.
CallerEvents ==
  << NewExclusionEvent("lila", Snapshot(<<>>, {}, 1),
                       [signals |-> 0, exclusions |-> 0], 1),
     NewExclusionEvent("chanti", Snapshot(<<>>, {}, 2),
                       [signals |-> 0, exclusions |-> 0], 2) >>

\* A Signal with the given timestamp.
CallerSignal(ts) == MovementSignal(NewEntity("kai"), NoRef, ts)

InitTimeline ==
  /\ LET st == NewTimeline(Store(<<>>, <<>>, CallerEvents))
     IN  tdb = st.tdb /\ lists = st.lists /\ events = st.events
  /\ heap = <<>>
  /\ entities = <<>>
  /\ mbonds = <<>>
  /\ collapsed = {}
  /\ entered_eye = {}
  /\ playthrough = 1
  /\ clock = 0
  /\ result = NoResult
  /\ calls = 0
  /\ seed = NoSeed
  /\ cells = <<>>
  /\ breath_count = 0

\* broadcast_signal called on TimelineDB object t
TimelineBroadcast(t, ts) ==
  /\ calls < MaxTimelineCalls
  /\ LET st == BroadcastSignal(EngineStore, t, CallerSignal(ts))
     IN  tdb' = st.tdb /\ lists' = st.lists /\ events' = st.events
  /\ calls' = calls + 1
  /\ UNCHANGED <<seed, nandVars, heap, entities, mbonds, collapsed, entered_eye, playthrough,
                 clock, result>>

\* record_exclusion called on TimelineDB object t with event object e
TimelineRecord(t, e) ==
  /\ calls < MaxTimelineCalls
  /\ LET st == RecordExclusion(EngineStore, t, e)
     IN  tdb' = st.tdb /\ lists' = st.lists /\ events' = st.events
  /\ calls' = calls + 1
  /\ UNCHANGED <<seed, nandVars, heap, entities, mbonds, collapsed, entered_eye, playthrough,
                 clock, result>>

\* branch_from_exclusion called on TimelineDB object t with event object e
TimelineBranch(t, e) ==
  /\ calls < MaxTimelineCalls
  /\ LET st == BranchFromExclusion(EngineStore, t, e)
     IN  tdb' = st.tdb /\ lists' = st.lists /\ events' = st.events
  /\ calls' = calls + 1
  /\ UNCHANGED <<seed, nandVars, heap, entities, mbonds, collapsed, entered_eye, playthrough,
                 clock, result>>

NextTimeline ==
  \/ \E t \in 1..Len(tdb), ts \in SignalTimes : TimelineBroadcast(t, ts)
  \/ \E t \in 1..Len(tdb), e \in 1..Len(events) : TimelineRecord(t, e)
  \/ \E t \in 1..Len(tdb), e \in 1..Len(events) : TimelineBranch(t, e)

SpecTimeline == InitTimeline /\ [][NextTimeline]_vars

\* ------------------------------------------------ the pure polarity functions
\* Three PolarityState objects of any values.
InitPolarity ==
  /\ heap \in [1..3 -> PolarityStates]
  /\ entities = <<>>
  /\ mbonds = <<>>
  /\ collapsed = {}
  /\ tdb = <<>>
  /\ lists = <<>>
  /\ events = <<>>
  /\ entered_eye = {}
  /\ playthrough = 1
  /\ clock = 0
  /\ result = NoResult
  /\ calls = 0
  /\ seed = NoSeed
  /\ cells = <<>>
  /\ breath_count = 0

\* _find_similar_salt called on object 1; the value the object had is kept
\* next to the list returned.
CallFindSimilarSalt ==
  /\ result = NoResult
  /\ LET salt == FindSimilarSalt(heap, 1)
     IN  /\ heap' = salt.heap
         /\ result' = [ status |-> "similar", polarity |-> 1,
                        before |-> PolarityOf(heap, 1),
                        similar |-> salt.similar ]
  /\ UNCHANGED <<seed, nandVars, entities, mbonds, collapsed, tdb, lists, events, entered_eye,
                 playthrough, clock, calls>>

\* distance_to called on object 1 with object 2
CallDistanceTo ==
  /\ result = NoResult
  /\ result' = [ status |-> "distance",
                 distance |-> DistanceTo(PolarityOf(heap, 1), PolarityOf(heap, 2)) ]
  /\ UNCHANGED <<seed, nandVars, heap, entities, mbonds, collapsed, tdb, lists, events,
                 entered_eye, playthrough, clock, calls>>

NextPolarity == CallFindSimilarSalt \/ CallDistanceTo

SpecPolarity == InitPolarity /\ [][NextPolarity]_vars

\* ------------------------------------- RelationshipMatrix called directly
\* RelationshipMatrix operations explored in one run.
MaxMatrixCalls == 3

\* The arguments create_bond, collapse_new_bond and get_bond are called with:
\* pairs of names in either order, strengths below 0, inside and above
\* [0, 1] (thousandths), and the draws of collapse_new_bond.
MatrixNames == {"kai", "lila", "maw"}
CreatePairs ==
  { <<"maw", "kai">>, <<"kai", "maw">>, <<"kai", "lila">>, <<"lila", "maw">> }
CollapseArgs == { <<"kai", "maw">>, <<"maw", "kai">> }
GetPairs == { <<"kai", "maw">>, <<"maw", "kai">>, <<"lila", "lila">> }
MatrixMediators == {"lila"}
MatrixTypes == {"trust"}
StrengthArgs == {-1000, 500, 1500}
MatrixDraws ==
  { [type |-> "trust", strength |-> 500],
    [type |-> "opposition", strength |-> 500],
    [type |-> "mirror", strength |-> 300] }

\* RelationshipMatrix()
InitMatrix ==
  /\ mbonds = <<>>
  /\ collapsed = {}
  /\ heap = <<>>
  /\ entities = <<>>
  /\ tdb = <<>>
  /\ lists = <<>>
  /\ events = <<>>
  /\ entered_eye = {}
  /\ playthrough = 1
  /\ clock = 0
  /\ result = NoResult
  /\ calls = 0
  /\ seed = NoSeed
  /\ cells = <<>>
  /\ breath_count = 0

\* create_bond(a, b, bond_type, strength); the clock is read when a Bond is
\* built.
MatrixCreate(a, b, type, strength) ==
  /\ calls < MaxMatrixCalls
  /\ mbonds' = CreateBond(mbonds, a, b, type, strength, Now(clock))
  /\ clock' = IF BondIndex(mbonds, NormalizeKey(a, b)) = 0
                THEN Now(clock) ELSE clock
  /\ result' = [status |-> "create_bond", a |-> a, b |-> b]
  /\ calls' = calls + 1
  /\ UNCHANGED <<seed, nandVars, heap, entities, collapsed, tdb, lists, events,
                 entered_eye, playthrough>>

\* collapse_new_bond(a, b, excluded_mediator=m) with the draws d
MatrixCollapse(a, b, m, d) ==
  /\ calls < MaxMatrixCalls
  /\ CollapseDrawPossible(mbonds, a, b, m, d)
  /\ LET r == CollapseNewBond(mbonds, collapsed, a, b, m, d, Now(clock))
     IN  /\ mbonds' = r.bonds
         /\ collapsed' = r.collapsed
         /\ result' = [status |-> "collapse_new_bond", a |-> a, b |-> b,
                       bond |-> r.bond]
  /\ clock' = Now(clock)
  /\ calls' = calls + 1
  /\ UNCHANGED <<seed, nandVars, heap, entities, tdb, lists, events,
                 entered_eye, playthrough>>

\* get_bond(a, b)
MatrixGet(a, b) ==
  /\ LET r == GetBond(mbonds, collapsed, a, b)
     IN  /\ collapsed' = r.collapsed
         /\ result' = [status |-> "get_bond", a |-> a, b |-> b,
                       bond |-> r.bond]
  /\ UNCHANGED <<seed, nandVars, heap, entities, mbonds, tdb, lists, events,
                 entered_eye, playthrough, clock, calls>>

NextMatrix ==
  \/ \E p \in CreatePairs, type \in MatrixTypes, strength \in StrengthArgs :
       MatrixCreate(p[1], p[2], type, strength)
  \/ \E p \in CollapseArgs, m \in MatrixMediators, d \in MatrixDraws :
       MatrixCollapse(p[1], p[2], m, d)
  \/ \E p \in GetPairs : MatrixGet(p[1], p[2])

SpecMatrix == InitMatrix /\ [][NextMatrix]_vars

\* --------------------------------------- bond_with / unbond_from on an entity
\* bond_with and unbond_from calls explored in one run.
MaxEntityCalls == 4

\* The names passed as `other`.
EntityOthers == {"furin", "kai"}

\* One roster entity as HeartShardEngine() leaves it.
InitEntity ==
  /\ entities \in { [k \in {n} |-> InitialEntities[n]] : n \in Roster }
  /\ heap = <<>>
  /\ mbonds = <<>>
  /\ collapsed = {}
  /\ tdb = <<>>
  /\ lists = <<>>
  /\ events = <<>>
  /\ entered_eye = {}
  /\ playthrough = 1
  /\ clock = 0
  /\ result = NoResult
  /\ calls = 0
  /\ seed = NoSeed
  /\ cells = <<>>
  /\ breath_count = 0

\* entity.bond_with(other)
EntityBondWith(k, other) ==
  /\ calls < MaxEntityCalls
  /\ entities' = [entities EXCEPT ![k] = BondWithEntity(@, other)]
  /\ result' = [status |-> "bond_with", name |-> k, other |-> other]
  /\ calls' = calls + 1
  /\ UNCHANGED <<seed, nandVars, heap, mbonds, collapsed, tdb, lists, events,
                 entered_eye, playthrough, clock>>

\* entity.unbond_from(other)
EntityUnbondFrom(k, other) ==
  /\ calls < MaxEntityCalls
  /\ entities' = [entities EXCEPT ![k] = UnbondFromEntity(@, other)]
  /\ result' = [status |-> "unbond_from", name |-> k, other |-> other]
  /\ calls' = calls + 1
  /\ UNCHANGED <<seed, nandVars, heap, mbonds, collapsed, tdb, lists, events,
                 entered_eye, playthrough, clock>>

NextEntity ==
  \/ \E k \in DOMAIN entities, other \in EntityOthers : EntityBondWith(k, other)
  \/ \E k \in DOMAIN entities, other \in EntityOthers : EntityUnbondFrom(k, other)

SpecEntity == InitEntity /\ [][NextEntity]_vars

\* ------------------------------------ two runs constructed with one seed
\* The integer seeds HeartShardEngine(seed) is constructed with.
SeedValues == {-1, 0, 1}
SeedArgs == { [given |-> TRUE, value |-> v] : v \in SeedValues }

\* The partners whose random.random() draw in _reshuffle_bonds_generational
\* is explored both ways (the draw of every other partner is not below the
\* bond strength).
DrawNames == {"lila", "chanti"}

\* The draws _reshuffle_bonds_generational can make once the success path s
\* has placed `name`: the partners whose bond forms, each with the type drawn.
GenerationalDraws(s, name) ==
  { d \in UNION { [S -> BondTypes] :
                    S \in SUBSET (GenerationalPartners(s.entities, name)
                                    \cap DrawNames) } :
      DrawsPossible(s.heap, s.entities, name, s.entities[name].polarity, d) }

\* What a run observes of one successful enter_the_maw: the polarity chosen
\* and the 'bonds' entry of new_configuration.
Observed(s, name, d) ==
  [ next_location |-> s.result.new_configuration.next_location,
    bonds |-> ReshuffleBondsGenerational(
                s.heap, s.entities, name, s.entities[name].polarity, d) ]

\* HeartShardEngine(seed), twice.
InitSeeded == ConstructEngine /\ seed \in SeedArgs

\* The same enter_the_maw(name) call made in two runs that were constructed
\* with the same seed and have observed the same so far (the engine variables
\* hold the state of the first run, which is then also the second's).  After
\* random.seed(seed) both runs draw the same values from Python's generator;
\* without it each run draws its own.
SeededEnter(name) ==
  /\ result.status = "success" => result.first = result.second
  /\ IF EnterOutcome(entities, name) # "success"
       THEN EnterTheMaw(name)
       ELSE
         /\ calls < MaxCalls
         /\ \E pickA, pickB \in 1..7 :
              LET sA == EnterSuccess(name, pickA)
                  sB == EnterSuccess(name, pickB)
              IN  \E dA \in GenerationalDraws(sA, name),
                     dB \in GenerationalDraws(sB, name) :
                    /\ SeedApplied(seed) => (pickA = pickB /\ dA = dB)
                    /\ heap' = sA.heap
                    /\ entities' = sA.entities
                    /\ entered_eye' = sA.entered_eye
                    /\ tdb' = sA.tdb
                    /\ lists' = sA.lists
                    /\ events' = sA.events
                    /\ playthrough' = sA.playthrough
                    /\ clock' = sA.clock
                    /\ result' = [ name   |-> name,
                                   status |-> "success",
                                   first  |-> Observed(sA, name, dA),
                                   second |-> Observed(sB, name, dB) ]
                    /\ calls' = calls + 1
                    /\ UNCHANGED <<seed, nandVars, mbonds, collapsed>>

NextSeeded == \E name \in EnterNames : SeededEnter(name)

SpecSeeded == InitSeeded /\ [][NextSeeded]_vars

\* ------------------------- exclusions followed by the exclusion ripple
\* enter_the_maw successes and _reshuffle_from_exclusion calls explored in one
\* run.
MaxRippleCalls == 3

\* The characters that enter.
RippleNames == {"lila", "chanti"}

\* HeartShardEngine()
InitRipple == ConstructEngine /\ seed = NoSeed

\* engine.enter_the_maw(name)
RippleEnter(name) ==
  IF EnterOutcome(entities, name) # "success"
    THEN EnterTheMaw(name)
    ELSE
      /\ calls < MaxRippleCalls
      /\ \E pick \in 1..7 :
           LET s == EnterSuccess(name, pick)
           IN  /\ heap' = s.heap
               /\ entities' = s.entities
               /\ entered_eye' = s.entered_eye
               /\ tdb' = s.tdb
               /\ lists' = s.lists
               /\ events' = s.events
               /\ playthrough' = s.playthrough
               /\ clock' = s.clock
               /\ result' = s.result
               /\ calls' = calls + 1
               /\ UNCHANGED <<seed, nandVars, mbonds, collapsed>>

\* engine._reshuffle_from_exclusion(event) for the ExclusionEvent of a
\* character that has entered; 'excluded' of the dict returned is kept.
RippleReshuffle(excluded) ==
  /\ calls < MaxRippleCalls
  /\ excluded \in entered_eye
  /\ ReshuffleEffect(excluded)
  /\ calls' = calls + 1
  /\ result' = [status |-> "reshuffle", excluded |-> excluded]

NextRipple ==
  \/ \E name \in RippleNames : RippleEnter(name)
  \/ \E excluded \in Characters : RippleReshuffle(excluded)

SpecRipple == InitRipple /\ [][NextRipple]_vars

\* -------------------------------- helical NAND (rotational_nand_sim.py)
\* HelicalNANDArray(num_cells=8)
NumCells == 8

\* apply_torque adds pi/4 to the phase and reduces it modulo 2*pi: in
\* doubles the phase returns to exactly 0.0 after 8 steps, so it is kept as
\* the number of eighths of a turn.
PhaseSteps == 8

\* HelicalCell()
FreshCell ==
  [ phase |-> 0, potential |-> FALSE, signal |-> FALSE, remainder |-> FALSE,
    violation |-> FALSE ]

\* HelicalCell.nand
Nand(a, b) == ~(a /\ b)

\* HelicalCell.apply_torque: the cell after it and the value it returns.
ApplyTorque(cell) ==
  LET phase == (cell.phase + 1) % PhaseSteps
  IN  [ cell |-> [cell EXCEPT !.phase = phase], has_friction |-> phase % 2 = 1 ]

\* BreathCycle without the admission check.
BreathCycle_NoCheck(cell, signal_in, admit) ==
  LET c1  == ApplyTorque([cell EXCEPT !.potential = signal_in]).cell
      sig == Nand(c1.potential, c1.signal)
  IN  [ cell |-> [c1 EXCEPT !.signal = sig, !.remainder = (sig # c1.potential)],
        out  |-> sig ]

\* HelicalCell.breath_cycle: the cell after it and the value it returns.
BreathCycle(cell, signal_in, admit) ==
  LET c1 == ApplyTorque([cell EXCEPT !.potential = signal_in]).cell
  IN  IF ~admit /\ (c1.signal = c1.potential)
        THEN [ cell |-> [c1 EXCEPT !.violation = TRUE], out |-> FALSE ]
        ELSE LET sig == Nand(c1.potential, c1.signal)
             IN  [ cell |-> [c1 EXCEPT !.signal = sig,
                                       !.remainder = (sig # c1.potential)],
                   out  |-> sig ]

\* The loop of HelicalNANDArray.process from cell i on: acc holds the cells,
\* the signals and remainders arrays and any_violation.
RECURSIVE ProcessFrom(_, _, _)
ProcessFrom(acc, data_in, i) ==
  IF i > Len(acc.cells) THEN acc
  ELSE LET cell   == acc.cells[i]
           sig_in == IF i = 1 THEN data_in[1] ELSE acc.signals[i - 1]
           admit  == sig_in # cell.potential
           r      == BreathCycle(cell, sig_in, admit)
       IN  ProcessFrom(
             [ cells         |-> [acc.cells EXCEPT ![i] = r.cell],
               signals       |-> [acc.signals EXCEPT ![i] = r.out],
               remainders    |-> [acc.remainders EXCEPT ![i] = r.cell.remainder],
               any_violation |-> acc.any_violation \/ r.cell.violation ],
             data_in, i + 1)

\* HelicalNANDArray.process
Process(cs, data_in) ==
  ProcessFrom(
    [ cells         |-> cs,
      signals       |-> [i \in 1..Len(cs) |-> FALSE],
      remainders    |-> [i \in 1..Len(cs) |-> FALSE],
      any_violation |-> FALSE ],
    data_in, 1)

\* process, breath_cycle and reset calls explored in one run.
MaxNandCalls == 3

\* The 8-bit inputs process is called with (the first is the one of
\* test_t1_preservation), and the cells breath_cycle is called on directly.
DataInputs ==
  { [i \in 1..NumCells |-> i % 2 = 1], [i \in 1..NumCells |-> i % 2 = 0],
    [i \in 1..NumCells |-> TRUE], [i \in 1..NumCells |-> FALSE] }
BreathCells == {1, 2}

\* HelicalNANDArray()
InitNand ==
  /\ cells = [i \in 1..NumCells |-> FreshCell]
  /\ breath_count = 0
  /\ heap = <<>>
  /\ entities = <<>>
  /\ mbonds = <<>>
  /\ collapsed = {}
  /\ tdb = <<>>
  /\ lists = <<>>
  /\ events = <<>>
  /\ entered_eye = {}
  /\ playthrough = 1
  /\ clock = 0
  /\ result = NoResult
  /\ calls = 0
  /\ seed = NoSeed

\* array.process(data_in)
NandProcess(data_in) ==
  /\ calls < MaxNandCalls
  /\ LET r == Process(cells, data_in)
     IN  /\ cells' = r.cells
         /\ result' = [ status |-> "process", signals |-> r.signals,
                        remainders |-> r.remainders,
                        any_violation |-> r.any_violation ]
  /\ breath_count' = breath_count + 1
  /\ calls' = calls + 1
  /\ UNCHANGED <<seed, heap, entities, mbonds, collapsed, tdb, lists, events,
                 entered_eye, playthrough, clock>>

\* array.cells[i].breath_cycle(signal_in, admit)
NandBreathCycle(i, signal_in, admit) ==
  /\ calls < MaxNandCalls
  /\ LET r == BreathCycle(cells[i], signal_in, admit)
     IN  /\ cells' = [cells EXCEPT ![i] = r.cell]
         /\ result' = [ status |-> "breath_cycle", cell |-> i,
                        signal_in |-> signal_in, admit |-> admit,
                        out |-> r.out ]
  /\ calls' = calls + 1
  /\ UNCHANGED <<seed, breath_count, heap, entities, mbonds, collapsed, tdb,
                 lists, events, entered_eye, playthrough, clock>>

\* array.reset()
NandReset ==
  /\ calls < MaxNandCalls
  /\ cells' = [i \in 1..Len(cells) |-> FreshCell]
  /\ breath_count' = 0
  /\ result' = [status |-> "reset"]
  /\ calls' = calls + 1
  /\ UNCHANGED <<seed, heap, entities, mbonds, collapsed, tdb, lists, events,
                 entered_eye, playthrough, clock>>

NextNand ==
  \/ \E data_in \in DataInputs : NandProcess(data_in)
  \/ \E i \in BreathCells, signal_in, admit \in BOOLEAN :
       NandBreathCycle(i, signal_in, admit)
  \/ NandReset

SpecNand == InitNand /\ [][NextNand]_vars

\* ================================================================ claims
\* A step that is the call enter_the_maw(n): the call leaves its argument and
\* its outcome in result.
EnterStep(n) ==
  /\ result'.status # "none"
  /\ result'.name = n
  /\ EnterTheMaw(n)

\* C1: once enter_the_maw(name) has succeeded (the name is then in entered_eye,
\* which never loses a member), every later enter_the_maw(name) returns the
\* 'Already inside the Maw' error and leaves entered_eye unchanged.
C1_ReentryRejected ==
  [][ /\ entered_eye \subseteq entered_eye'
      /\ \A n \in EnterNames :
           EnterStep(n) =>
             /\ (result'.status = "success" => n \in entered_eye')
             /\ (n \in entered_eye =>
                   /\ result'.status = "Already inside the Maw"
                   /\ entered_eye' = entered_eye) ]_vars

\* A second call for a name that entered, made after another operation ran.
C1_Witness ==
  /\ result.status = "Already inside the Maw"
  /\ result.name \in entered_eye
  /\ calls = 2

\* C2: the playthrough counter never decreases; a successful enter_the_maw
\* increases it by exactly 1 (and returns the new value), a call that returns
\* an error leaves it unchanged.
C2_PlaythroughCounts ==
  [][ /\ playthrough' >= playthrough
      /\ \A n \in EnterNames :
           EnterStep(n) =>
             IF result'.status = "success"
               THEN /\ playthrough' = playthrough + 1
                    /\ result'.playthrough = playthrough'
               ELSE playthrough' = playthrough ]_vars

\* A failed attempt after a successful one: the counter stays at 2.
C2_Witness ==
  /\ playthrough = 2
  /\ result.status = "Character not ready (needs bonds, lower entropy)"

\* C3: a Character's inside_eye flag, once true, stays true under every
\* operation.
C3_InsideEyeTerminal ==
  [][ \A k \in Characters :
        entities[k].inside_eye => entities'[k].inside_eye ]_vars

\* A character is inside the eye and another state-changing operation ran
\* after its entry.
C3_Witness ==
  /\ \E k \in Characters : entities[k].inside_eye
  /\ calls = 2
  /\ result = NoResult

\* C5: enter_the_maw decides its outcome in the order invalid entity, already
\* inside, not ready (no bond, or entropy not below 0.8), success; a success
\* sets inside_eye.
C5_OutcomeOrder ==
  [][ \A n \in EnterNames :
        EnterStep(n) =>
          LET expected ==
                IF n \notin Roster \/ n \notin Characters
                  THEN "Invalid character"
                ELSE IF entities[n].inside_eye
                  THEN "Already inside the Maw"
                ELSE IF ~(entities[n].bonds # {} /\ entities[n].entropy < 805)
                  THEN "Character not ready (needs bonds, lower entropy)"
                ELSE "success"
          IN  /\ result'.status = expected
              /\ (expected = "success" => entities'[n].inside_eye) ]_vars

\* vincent holds a bond and entropy exactly 0.8, and was refused as not ready.
C5_Witness ==
  /\ result.status = "Character not ready (needs bonds, lower entropy)"
  /\ result.name = "vincent"
  /\ entities["vincent"].bonds # {}
  /\ entities["vincent"].entropy = 805

\* C6: an enter_the_maw call that returns an error leaves the whole engine
\* state unchanged (entities, polarity objects, bond matrix, collapsed set,
\* timeline logs, branches and time, entered_eye, playthrough).
C6_ErrorChangesNothing ==
  [][ \A n \in EnterNames :
        (EnterStep(n) /\ result'.status # "success")
          => UNCHANGED engineVars ]_vars

\* An artifact was refused after the engine state had been changed.
C6_Witness ==
  /\ result.status = "Invalid character"
  /\ result.name = "heartshard"
  /\ calls > 0

\* C7: after k successful enter_the_maw calls the timeline's exclusion log
\* holds k closed events and get_state_snapshot reports exclusions = k and
\* last_exclusion = a name that entered.
C7_ExclusionsRecorded ==
  LET log  == ExclusionLog(EngineStore, 1)
      snap == GetStateSnapshot(EngineStore, 1)
      k    == playthrough - 1
  IN  /\ Len(log) = k
      /\ \A i \in 1..Len(log) : log[i].eye_closed
      /\ snap.exclusions = k
      /\ (k > 0 => snap.last_exclusion \in entered_eye)

C10_GenerationAndLineage ==
  [][ \A n \in EnterNames :
        (EnterStep(n) /\ result'.status = "success") =>
          LET log == SignalLog(Store(tdb', lists', events'), 1)
              sig == log[Len(log)]
          IN  /\ entities'[n].generation = entities[n].generation + 1
              /\ entities'[n].lineage = Append(entities[n].lineage, n)
              /\ Len(log) = Len(SignalLog(EngineStore, 1)) + 1
              /\ sig.event_type = "generational_birth"
              /\ sig.source = n
              /\ sig.generation = entities'[n].generation
              /\ sig.lineage = entities'[n].lineage
              /\ result'.birth_signal.generation = entities'[n].generation
              /\ result'.birth_signal.lineage = entities'[n].lineage ]_vars

\* chanti has just entered: generation 2, lineage [chanti].
C10_Witness ==
  /\ result.status = "success"
  /\ result.name = "chanti"
  /\ entities["chanti"].generation = 2
  /\ entities["chanti"].lineage = <<"chanti">>

\* C4: the child branch_from_exclusion returns holds logs equal to the
\* parent's at the call, and a later broadcast_signal or record_exclusion on
\* the parent leaves every child's signal log and exclusion log unchanged.
C4_BranchSnapshot ==
  [][ \A t \in 1..Len(tdb) :
        /\ (\E e \in 1..Len(events) : TimelineBranch(t, e)) =>
             LET child == Len(tdb')
                 after == Store(tdb', lists', events')
             IN  /\ child = Len(tdb) + 1
                 /\ tdb'[t].branches = Append(tdb[t].branches, child)
                 /\ SignalLog(after, child) = SignalLog(EngineStore, t)
                 /\ ExclusionLog(after, child) = ExclusionLog(EngineStore, t)
        /\ ( \/ \E ts \in SignalTimes : TimelineBroadcast(t, ts)
             \/ \E e \in 1..Len(events) : TimelineRecord(t, e) ) =>
             \A i \in 1..Len(tdb[t].branches) :
               LET c == tdb[t].branches[i]
                   after == Store(tdb', lists', events')
               IN  /\ SignalLog(after, c) = SignalLog(EngineStore, c)
                   /\ ExclusionLog(after, c) = ExclusionLog(EngineStore, c) ]_vars

\* A child branched with one signal and one exclusion in its logs, and the
\* parent has broadcast again since.
C4_Witness ==
  /\ Len(tdb) >= 2
  /\ tdb[1].branches # <<>>
  /\ LET c == tdb[1].branches[1]
     IN  /\ Len(SignalLog(EngineStore, c)) = 1
         /\ Len(ExclusionLog(EngineStore, c)) = 1
         /\ Len(SignalLog(EngineStore, 1)) = 2

\* C9: for every polarity state p, _find_similar_salt(p) returns 7 pairwise
\* distinct states: p itself (the argument object), three at distance 1 and
\* three at distance 2; never the full inversion; p is not modified.
C9_SimilarSalt ==
  result.status = "similar" =>
    LET p   == result.before
        val == [i \in 1..Len(result.similar) |-> PolarityOf(heap, result.similar[i])]
    IN  /\ Len(val) = 7
        /\ \A i, j \in 1..Len(val) : i # j => val[i] # val[j]
        /\ val[1] = p
        /\ Cardinality({i \in 1..Len(val) : DistanceTo(p, val[i]) = 1}) = 3
        /\ Cardinality({i \in 1..Len(val) : DistanceTo(p, val[i]) = 2}) = 3
        /\ \A i \in 1..Len(val) : val[i] # <<-p[1], -p[2], -p[3]>>
        /\ PolarityOf(heap, result.polarity) = p

\* _find_similar_salt has been called on <<1, -1, 1>>.
C9_Witness ==
  /\ result.status = "similar"
  /\ result.before = <<1, -1, 1>>
  /\ Len(heap) = 9

\* C11: after any sequence of create_bond and collapse_new_bond calls with the
\* names in either order, get_bond(a, b) and get_bond(b, a) return the same
\* bond record or both return None, and no two bond records are held for the
\* same unordered pair.
C11_BondSymmetry ==
  /\ \A a, b \in MatrixNames :
       GetBond(mbonds, collapsed, a, b).bond = GetBond(mbonds, collapsed, b, a).bond
  /\ \A i, j \in 1..Len(mbonds) :
       i # j => {mbonds[i].entity_a, mbonds[i].entity_b}
                  # {mbonds[j].entity_a, mbonds[j].entity_b}
  /\ result.status = "get_bond" =>
       result.bond = GetBond(mbonds, collapsed, result.b, result.a).bond

\* get_bond(a, b) has returned the bond that collapse_new_bond(b, a) drew.
C11_Witness ==
  /\ result.status = "get_bond"
  /\ result.bond # NoBond
  /\ result.bond.entity_a = result.b
  /\ result.bond.entity_b = result.a
  /\ result.a # result.b
  /\ result.bond.bond_type = "opposition"

\* C12: after any sequence of create_bond calls, whatever strengths are
\* passed, every bond of the matrix has 0 <= strength <= 1.
C12_StrengthInUnitInterval ==
  \A i \in 1..Len(mbonds) :
    mbonds[i].strength >= 0 /\ mbonds[i].strength <= MaxStrength

C14_SeedDeterminism ==
  result.status = "success" => result.first = result.second

\* C15: distance_to is a metric on the 8 polarity states: an integer in 0..3,
\* 0 exactly for equal states, symmetric, and within the triangle inequality.
\* p, q and r are the three PolarityState objects of the run, of any values;
\* the value distance_to(p, q) returned is held against the same properties.
C15_DistanceMetric ==
  LET p == PolarityOf(heap, 1)
      q == PolarityOf(heap, 2)
      r == PolarityOf(heap, 3)
  IN  /\ DistanceTo(p, q) \in 0..3
      /\ (DistanceTo(p, q) = 0) <=> (p = q)
      /\ DistanceTo(p, q) = DistanceTo(q, p)
      /\ DistanceTo(p, r) <= DistanceTo(p, q) + DistanceTo(q, r)
      /\ result.status = "distance" =>
           /\ result.distance \in 0..3
           /\ (result.distance = 0) <=> (p = q)
           /\ result.distance = DistanceTo(q, p)
           /\ result.distance <= DistanceTo(p, r) + DistanceTo(r, q)

\* distance_to has returned 3 for a state and its full inversion.
C15_Witness ==
  /\ result.status = "distance"
  /\ result.distance = 3
  /\ PolarityOf(heap, 1) = <<1, -1, 1>>
  /\ PolarityOf(heap, 2) = <<-1, 1, -1>>

\* C16: in every reachable engine state, from construction on, b is in
\* entities[a].bonds exactly when the matrix holds a bond for the pair {a, b},
\* for all roster keys a and b.
C16_BondsAgreeWithMatrix ==
  \A a, b \in Roster :
    (b \in entities[a].bonds) <=> (GetBond(mbonds, collapsed, a, b).bond # NoBond)

\* C17: for every 8-bit input processed by a freshly constructed 8-cell
\* array, at least one entry of the remainders array returned is true.
C17_RemainderPreserved ==
  (result.status = "process" /\ calls = 1) =>
    \E i \in 1..NumCells : result.remainders[i]

\* C18: breath_cycle(signal_in, admit=False) on a cell whose stored signal
\* equals signal_in sets the violation flag, returns False and leaves signal
\* and remainder unchanged; a violation flag that is set stays set under
\* every operation but reset.
C18_ViolationLatched ==
  [][ /\ \A i \in BreathCells, signal_in \in BOOLEAN :
           (NandBreathCycle(i, signal_in, FALSE) /\ cells[i].signal = signal_in)
             => /\ cells'[i].violation
                /\ result'.out = FALSE
                /\ cells'[i].signal = cells[i].signal
                /\ cells'[i].remainder = cells[i].remainder
      /\ ~NandReset =>
           \A i \in 1..Len(cells) : cells[i].violation => cells'[i].violation
    ]_vars

\* A cell whose signal had become true refused the signal true, and a later
\* breath_cycle ran on the array with the flag still set.
C18_Witness ==
  /\ calls = 3
  /\ result.status = "breath_cycle"
  /\ result.admit
  /\ cells[1].violation
  /\ cells[1].signal
  /\ cells[1].remainder

\* C19: a successful enter_the_maw(name) keeps the roster's keys and the
\* record under name, whose polarity is then at distance 0, 1 or 2 from its
\* polarity before the call, never the full inversion; that polarity is the
\* next_location returned, and the birth_signal location returned is the
\* polarity before the call.
C19_RebornNearby ==
  [][ \A n \in EnterNames :
        (EnterStep(n) /\ result'.status = "success") =>
          LET before == PolarityOf(heap, entities[n].polarity)
              after  == PolarityOf(heap', entities'[n].polarity)
          IN  /\ DOMAIN entities' = DOMAIN entities
              /\ entities'[n].name = entities[n].name
              /\ DistanceTo(before, after) \in {0, 1, 2}
              /\ after # <<Flip(before[1]), Flip(before[2]), Flip(before[3])>>
              /\ result'.new_configuration.next_location = ToTuple(after)
              /\ result'.birth_signal.location = ToTuple(before) ]_vars

\* lila, moved to <<1, 1, -1>> before, has entered and was reborn two axes
\* away.
C19_Witness ==
  /\ result.status = "success"
  /\ result.name = "lila"
  /\ result.birth_signal.location = <<1, 1, -1>>
  /\ DistanceTo(result.birth_signal.location,
                result.new_configuration.next_location) = 2
  /\ PolarityOf(heap, entities["lila"].polarity)
       = result.new_configuration.next_location

\* C20: in the configuration a successful enter_the_maw(name) returns, every
\* bond entry pairs name with another Character that has not entered the eye,
\* and the candidate partners are exactly the other Characters whose
\* inside_eye is false.
C20_PartnersNotExcluded ==
  result.status = "success" =>
    LET n == result.name
    IN  /\ \A b \in result.first.bonds \cup result.second.bonds :
             /\ b.pair[1] = n
             /\ b.pair[2] \in Characters \ {n}
             /\ ~entities[b.pair[2]].inside_eye
        /\ GenerationalPartners(entities, n)
             = { k \in Characters \ {n} : ~entities[k].inside_eye }

\* C21: every bond entry (name, other) of the configuration a successful
\* enter_the_maw(name) returns follows the Hamming distance d between the
\* reborn entity's new polarity and other's polarity: d <= 1 gives trust or
\* protection with strength 0.8, d = 2 dependency or mirror with 0.5, d = 3
\* unknown with 0.2; no entry has type opposition or mediated.
C21_BondsByDistance ==
  result.status = "success" =>
    \A obs \in {result.first, result.second} :
      \A b \in obs.bonds :
        LET d == DistanceTo(obs.next_location,
                            PolarityOf(heap, entities[b.pair[2]].polarity))
        IN  /\ b.pair[1] = result.name
            /\ d <= 1 => (b.type \in {"trust", "protection"} /\ b.strength = 800)
            /\ d = 2 => (b.type \in {"dependency", "mirror"} /\ b.strength = 500)
            /\ d = 3 => (b.type = "unknown" /\ b.strength = 200)
            /\ b.type \notin {"opposition", "mediated"}

\* chanti, entering after lila, was reborn at distance 3 from lila's polarity
\* and the bond with lila formed.
C21_Witness ==
  /\ result.status = "success"
  /\ result.name = "chanti"
  /\ entities["lila"].inside_eye
  /\ \E b \in result.first.bonds :
       b.pair = <<"chanti", "lila">> /\ b.type = "unknown" /\ b.strength = 200

\* A step of the seeded runs that is a successful enter_the_maw(n): every step
\* there is an enter_the_maw call, which leaves its argument and its outcome in
\* result and counts itself in calls when it succeeds.
SeededSuccess(n) ==
  /\ result'.status = "success"
  /\ result'.name = n
  /\ calls' = calls + 1

\* C22: a successful enter_the_maw commits none of the bonds it derives: the
\* matrix's bonds (pairs, types, strengths) and collapsed set and every
\* entity's bonds set and entropy are the same after the call as before; the
\* derived bonds are in the configuration returned only.
C22_BondsNotCommitted ==
  [][ \A n \in EnterNames :
        SeededSuccess(n) =>
          /\ mbonds' = mbonds
          /\ collapsed' = collapsed
          /\ \A k \in Roster :
               /\ entities'[k].bonds = entities[k].bonds
               /\ entities'[k].entropy = entities[k].entropy
          /\ \A b \in result'.first.bonds :
               GetBond(mbonds', collapsed', b.pair[1], b.pair[2]).bond
                 = GetBond(mbonds, collapsed, b.pair[1], b.pair[2]).bond
    ]_vars

\* lila has entered and the configuration returned bonds her with chanti,
\* a pair the matrix holds no bond for.
C22_Witness ==
  /\ result.status = "success"
  /\ result.name = "lila"
  /\ \E b \in result.first.bonds : b.pair = <<"lila", "chanti">>
  /\ GetBond(mbonds, collapsed, "lila", "chanti").bond = NoBond
  /\ "chanti" \notin entities["lila"].bonds

\* C23: over any sequence of broadcast_signal calls the current time of a
\* TimelineDB never decreases: a signal with a timestamp older than the
\* current time does not move current_time backwards.
C23_TimeMonotonic ==
  [][ \A t \in 1..Len(tdb) :
        (\E ts \in SignalTimes : TimelineBroadcast(t, ts)) =>
          tdb'[t].current_time >= tdb[t].current_time ]_vars

\* C24: each entity's diagonal is a complete append-only polarity history: in
\* every reachable state its last entry equals the entity's current polarity,
\* and an entry once appended is never changed or removed, under
\* move_to_polarity, enter_the_maw and _reshuffle_from_exclusion.
C24_DiagonalHistory ==
  /\ [](\A k \in Roster :
          LET d == entities[k].diagonal
          IN  PolarityOf(heap, d[Len(d)]) = PolarityOf(heap, entities[k].polarity))
  /\ [][ \A k \in Roster :
           LET d  == entities[k].diagonal
               d2 == entities'[k].diagonal
           IN  /\ Len(d2) >= Len(d)
               /\ \A i \in 1..Len(d) :
                    PolarityOf(heap', d2[i]) = PolarityOf(heap, d[i]) ]_vars

\* C25: a Signal stored in a timeline log, or in a branch copied from it,
\* never changes after creation: its fields, and the axis values of its
\* signal_location and of its polarity payload, stay as they were when it was
\* broadcast, under every later engine operation.
C25_SignalsImmutable ==
  [][ \A t \in 1..Len(tdb) :
        LET log  == SignalLog(EngineStore, t)
            log2 == SignalLog(Store(tdb', lists', events'), t)
        IN  \A i \in 1..Len(log) :
              /\ Len(log2) >= i
              /\ log2[i] = log[i]
              /\ log[i].signal_location # NoRef =>
                   PolarityOf(heap', log2[i].signal_location)
                     = PolarityOf(heap, log[i].signal_location)
              /\ log[i].polarity_change # NoRef =>
                   PolarityOf(heap', log2[i].polarity_change)
                     = PolarityOf(heap, log[i].polarity_change) ]_vars

\* C26: collapse_new_bond(a, b, m) stores and returns a bond for the pair
\* {a, b}.  If a and b both have a bond to m, its type is their common type
\* when the two types match and otherwise opposition or dependency, and its
\* strength is the average of the two strengths; if neither has a bond to m,
\* its type is any BondType and its strength lies in [0.3, 0.7].  In all cases
\* the strength is in [0, 1] and the bonds a-m and b-m are left unchanged.
C26_CollapseRule ==
  [][ \A p \in CollapseArgs, m \in MatrixMediators :
        ( /\ result'.status = "collapse_new_bond"
          /\ result'.a = p[1] /\ result'.b = p[2]
          /\ \E d \in MatrixDraws : MatrixCollapse(p[1], p[2], m, d) ) =>
          LET oa == GetBond(mbonds, collapsed, p[1], m).bond
              ob == GetBond(mbonds, collapsed, p[2], m).bond
              nb == result'.bond
          IN  /\ GetBond(mbonds', collapsed', p[1], p[2]).bond = nb
              /\ {nb.entity_a, nb.entity_b} = {p[1], p[2]}
              /\ (oa # NoBond /\ ob # NoBond) =>
                   /\ IF oa.bond_type = ob.bond_type
                        THEN nb.bond_type = oa.bond_type
                        ELSE nb.bond_type \in {"opposition", "dependency"}
                   /\ 2 * nb.strength = oa.strength + ob.strength
              /\ (oa = NoBond /\ ob = NoBond) =>
                   /\ nb.bond_type \in BondTypes
                   /\ nb.strength >= 300 /\ nb.strength <= 700
              /\ nb.strength >= 0 /\ nb.strength <= MaxStrength
              /\ GetBond(mbonds', collapsed', p[1], m).bond = oa
              /\ GetBond(mbonds', collapsed', p[2], m).bond = ob ]_vars

\* C27: _reshuffle_from_exclusion(event) perturbs only the other Characters
\* that are not excluded: the polarity of the excluded entity, of every
\* Artifact and of every Character whose inside_eye is true is unchanged by
\* the call, and the polarity of every remaining Character differs after the
\* call from before it in no axis or in exactly one.
C27_RipplePerturbsOthers ==
  [][ \A e \in Characters :
        ( /\ result'.status = "reshuffle"
          /\ result'.excluded = e
          /\ RippleReshuffle(e) ) =>
          \A k \in Roster :
            LET before == PolarityOf(heap, entities[k].polarity)
                after  == PolarityOf(heap', entities'[k].polarity)
            IN  IF k = e \/ k \notin Characters \/ entities[k].inside_eye
                  THEN after = before
                  ELSE DistanceTo(before, after) <= 1 ]_vars

\* C28: create_bond(a, b, type, s) on a pair that has a bond sets that bond's
\* strength to min(1, old strength + 0.5*s) and keeps its type and formation
\* time, whatever type is passed and in whichever order a and b are given; on
\* a pair without a bond it creates one with exactly the type and strength
\* given; in both cases no other pair's bond changes.
C28_CreateOrStrengthen ==
  [][ \A p \in CreatePairs, type \in MatrixTypes, s \in StrengthArgs :
        ( /\ result'.status = "create_bond"
          /\ result'.a = p[1] /\ result'.b = p[2]
          /\ MatrixCreate(p[1], p[2], type, s) ) =>
          LET I == { i \in 1..Len(mbonds) :
                       {mbonds[i].entity_a, mbonds[i].entity_b} = {p[1], p[2]} }
          IN  /\ IF I # {}
                   THEN /\ Len(mbonds') = Len(mbonds)
                        /\ \A i \in I :
                             /\ 2 * mbonds'[i].strength
                                  = Min(2 * MaxStrength, 2 * mbonds[i].strength + s)
                             /\ mbonds'[i].bond_type = mbonds[i].bond_type
                             /\ mbonds'[i].formed_at = mbonds[i].formed_at
                   ELSE /\ Len(mbonds') = Len(mbonds) + 1
                        /\ LET nb == mbonds'[Len(mbonds')]
                           IN  /\ {nb.entity_a, nb.entity_b} = {p[1], p[2]}
                               /\ nb.bond_type = type
                               /\ nb.strength = s
              /\ \A j \in 1..Len(mbonds) : j \notin I => mbonds'[j] = mbonds[j]
    ]_vars

\* create_bond(kai, maw, trust, ...) has strengthened to 1.0 the opposition
\* bond that collapse_new_bond(maw, kai) had stored.
C28_Witness ==
  /\ result.status = "create_bond"
  /\ result.a = "kai" /\ result.b = "maw"
  /\ \E i \in 1..Len(mbonds) :
       /\ mbonds[i].entity_a = "maw" /\ mbonds[i].entity_b = "kai"
       /\ mbonds[i].bond_type = "opposition"
       /\ mbonds[i].strength = MaxStrength

\* C29: get_bond(a, b) changes no bond data and, when the pair has a bond,
\* adds the normalized pair to the collapsed set; the collapsed set only grows
\* and is in every reachable state a subset of the pairs that have a bond;
\* get_bonded_to(name) returns the same neighbours whether or not the pairs
\* are collapsed.
C29_ObservationCollapses ==
  /\ [](collapsed \subseteq { mbonds[i].key : i \in 1..Len(mbonds) })
  /\ [][ /\ collapsed \subseteq collapsed'
         /\ \A p \in GetPairs :
              ( /\ result'.status = "get_bond"
                /\ result'.a = p[1] /\ result'.b = p[2]
                /\ MatrixGet(p[1], p[2]) ) =>
                LET I == { i \in 1..Len(mbonds) :
                             {mbonds[i].entity_a, mbonds[i].entity_b}
                               = {p[1], p[2]} }
                IN  /\ mbonds' = mbonds
                    /\ IF I # {}
                         THEN /\ \A i \in I : result'.bond = mbonds[i]
                              /\ collapsed' = collapsed \cup {NormalizeKey(p[1], p[2])}
                         ELSE /\ result'.bond = NoBond
                              /\ collapsed' = collapsed
                    /\ \A n \in MatrixNames :
                         GetBondedTo(mbonds', n) = GetBondedTo(mbonds, n) ]_vars

\* get_bond(maw, kai) has collapsed the pair (kai, maw) while kai has another
\* bond that is not collapsed: kai's neighbours are both.
C29_Witness ==
  /\ result.status = "get_bond"
  /\ result.a = "maw" /\ result.b = "kai"
  /\ result.bond # NoBond
  /\ collapsed = { <<"kai", "maw">> }
  /\ { GetBondedTo(mbonds, "kai")[i] : i \in 1..Len(GetBondedTo(mbonds, "kai")) }
       = {"maw", "lila"}

\* C30: in every reachable engine state the bookkeeping of exclusions agrees:
\* playthrough = 1 + |entered_eye| = 1 + the number of branches of the
\* engine's timeline; entered_eye is exactly the set of roster keys of
\* Characters whose inside_eye is true; a Character has generation 2 and a
\* non-empty lineage exactly when it is in entered_eye, and generation 1 and an
\* empty lineage otherwise; the signal log of each branch holds the birth
\* signal of the exclusion that created the branch.
C30_ExclusionBookkeeping ==
  /\ playthrough = 1 + Cardinality(entered_eye)
  /\ playthrough = 1 + Len(tdb[1].branches)
  /\ entered_eye = { k \in Roster : k \in Characters /\ entities[k].inside_eye }
  /\ \A k \in Characters :
       IF k \in entered_eye
         THEN entities[k].generation = 2 /\ entities[k].lineage # <<>>
         ELSE entities[k].generation = 1 /\ entities[k].lineage = <<>>
  /\ Len(events) = Len(tdb[1].branches)
  /\ \A j \in 1..Len(tdb[1].branches) :
       LET c   == tdb[1].branches[j]
           log == SignalLog(EngineStore, c)
       IN  \E i \in 1..Len(log) :
             /\ log[i].event_type = "generational_birth"
             /\ log[i].source = events[j].character
             /\ log[i].timestamp = tdb[c].branch_point
             /\ log[i] = entities[events[j].character].birth_signal

\* Two characters have entered; the second branch holds both birth signals.
C30_Witness ==
  /\ playthrough = 3
  /\ entered_eye = {"lila", "chanti"}
  /\ Len(tdb[1].branches) = 2
  /\ Len(SignalLog(EngineStore, tdb[1].branches[2])) = 2

====
